---- MODULE Spec2Model ----
(***************************************************************************)
(* A model of py_huddle's data-acquisition code:                           *)
(*   - retry_with_backoff and its callers fetch_liga_data and              *)
(*     fetch_game_details (app.py),                                        *)
(*   - the archive client BasketballArchive (src/api/archive.py): the      *)
(*     league-listing walk, the roster fetch, the export download and the  *)
(*     HTML schedule page,                                                 *)
(*   - the reconciliation of scraped player names with the uploaded        *)
(*     roster: DataProcessor.build_birthday_lookup (src/data/processing.py)*)
(*     the player rows of BasketballClient._parse_game_details             *)
(*     (src/api/basketball.py) and the player loop of                      *)
(*     PDFGenerator.generate_pdf with _lookup_birthday                     *)
(*     (src/pdf/generator.py),                                             *)
(*   - the league parser BasketballClient._parse_liga_data and the parsing *)
(*     part of fetch_liga_data (app.py),                                   *)
(*   - the pages of the application: main() (main.py), MainPage            *)
(*     (src/ui/pages.py), UIComponents.render_file_upload and SessionState.*)
(* Every upstream answer is an input chosen from a small set.              *)
(***************************************************************************)
EXTENDS Integers, Sequences, FiniteSets, TLC

VARIABLES
    \* ---- retry_with_backoff (app.py) ----
    rpc,          \* position: "idle", "loop", "returned", "raised", "fell_through"
    caller,       \* who called the wrapper: "direct", "fetch_liga_data", "fetch_game_details"
    max_retries,  \* the max_retries argument of the running invocation
    attempt,      \* the loop variable of `for attempt in range(max_retries)`
    trace,        \* what the wrapper did so far: calls of func and sleeps, in order
    result,       \* the value the wrapper returned (a response), NoResponse before
    raised,       \* the exception the wrapper raised, "" before
    fetch_out,    \* what the fetch_* caller handed back: "none", "data", "error"
    \* ---- BasketballArchive (src/api/archive.py) ----
    apc,          \* position of the archive client: "idle", "leagues", "leagues_done", ...
    start_row,    \* _get_all_leagues: the offset of the page to fetch next
    page,         \* _get_all_leagues: the page counter
    all_leagues,  \* _get_all_leagues: the leagues collected so far
    http_log,     \* the requests the client's session made: [op, arg, error], in order
    last_page,    \* the upstream document parsed last
    last_next,    \* the next_start_row the last page call returned
    ret,          \* the list the operation returned (or has collected so far)
    team_name,    \* the team_name argument of the running operation
    temp_left,    \* get_away_games: its temporary file is still on disk
    league_idx,   \* find_team_leagues: the position of `for league in all_leagues`
    upstream,     \* find_team_leagues: the answers the upstream gave for each league
    \* ---- name reconciliation (processing.py, basketball.py, generator.py) ----
    npc,              \* position: "idle", "built", "parsed", "no_player", "filled"
    roster,           \* the rows of the uploaded player list (the DataFrame)
    birthday_lookup,  \* the dict build_birthday_lookup returned, in insertion order
    player,           \* the player dict _parse_game_details made of a row
    lookups,          \* the results of the calls of _lookup_birthday, in order
    name_text,        \* generate_pdf: the text of the player's name field
    birthday_text,    \* generate_pdf: the text of the player's birthday field
    has_unknown_birthdays,  \* generate_pdf: a birthday was not found
    \* ---- the league parser (basketball.py _parse_liga_data, app.py fetch_liga_data) ----
    lpc,              \* position: "idle", "client_parsed", "app_parsed"
    liga_doc,         \* the document handed to the parser
    target_table,     \* the position of the table the parser chose, 0 for None
    liga_data,        \* the rows of the DataFrame the parser returned
    \* ---- the pages of the application (main.py, src/ui): st.session_state ----
    step_1_done,              \* SessionState: league data fetched
    step_2_done,              \* SessionState: both files uploaded
    step_3_done,              \* SessionState: game details loaded
    liga_df,                  \* "None", "empty" or "data"
    uploaded_df,              \* the game data: "None" or "df"
    player_birthdays_df,      \* the player list: "None" or "df"
    match_details,            \* "None" or "df"
    player_data_status,       \* the player list passed validation
    player_upload_status,     \* render_file_upload: f"{key}_status" of key player_upload
    game_data_status,         \* the game data passed validation
    game_upload_status,       \* render_file_upload: f"{key}_status" of key game_upload
    player_upload,            \* the file in the uploader player_upload, "none" when empty
    game_upload,              \* the file in the uploader game_upload, "none" when empty
    is_logged_in,             \* the login for the archive succeeded
    archive_search_done,      \* render_archive_section: a search has finished
    archive_matching_leagues, \* render_archive_section: the leagues of the last search
    archive_club_name,        \* render_archive_section: the text of the club name input
    rendered,                 \* the steps of the wizard the last script run rendered
    widgets,                  \* the buttons and uploaders the last script run rendered
    run_error,                \* the exception main() caught in the last script run, "" if none
    archive_message,          \* what the archive section showed in the last script run
    last_click                \* the user's action that started the last script run

retryVars == <<rpc, caller, max_retries, attempt, trace, result, raised, fetch_out>>
archVars == <<apc, start_row, page, all_leagues, http_log, last_page, last_next, ret,
              team_name, temp_left, league_idx, upstream>>

nameVars == <<npc, roster, birthday_lookup, player, lookups, name_text,
              birthday_text, has_unknown_birthdays>>

ligaVars == <<lpc, liga_doc, target_table, liga_data>>

uiVars == <<step_1_done, step_2_done, step_3_done, liga_df, uploaded_df,
            player_birthdays_df, match_details, player_data_status,
            player_upload_status, game_data_status, game_upload_status,
            player_upload, game_upload, is_logged_in, archive_search_done,
            archive_matching_leagues, archive_club_name, rendered, widgets,
            run_error, archive_message, last_click>>

vars == <<retryVars, archVars, nameVars, ligaVars, uiVars>>

----------------------------------------------------------------------------
\* Bounds of the model

\* the largest max_retries an invocation is started with
MaxRetries == 4

\* the largest startrow offset a navigation link of the upstream carries
MaxOffset == 2

\* the most navigation links one page carries
MaxLinks == 2

\* the most rows a roster table, an export sheet or a schedule page carries
MaxRows == 2

\* the most pages of one HTML schedule the model walks
MaxSchedPages == 2

\* the hard page cap of the specification ("e.g. 200"), scaled to the model
HardPageCap == 2

----------------------------------------------------------------------------
\* Program constants (app.py)

DEFAULT_RETRY_COUNT == 3
RETRY_DELAY == 1

----------------------------------------------------------------------------
\* Upstream answers to one HTTP request

\* exceptions requests.get / requests.post raise themselves
TransportErrors == {"ConnectionError", "Timeout"}

\* status codes a response can carry
StatusCodes == {200, 404, 503}

NoResponse == [status |-> 0]
Response(s) == [status |-> s]

\* One outcome of calling func: it returns a response or raises.
CallOutcomes ==
    [ev : {"call"}, status : StatusCodes, error : {""}, t : {0}]
    \cup [ev : {"call"}, status : {0}, error : TransportErrors, t : {0}]

CallEvent(o) == o
SleepEvent(secs) == [ev |-> "sleep", status |-> 0, error |-> "", t |-> secs]

IsCall(e) == e.ev = "call"
IsSleep(e) == e.ev = "sleep"
Raises(e) == e.ev = "call" /\ e.error # ""
Returns(e) == e.ev = "call" /\ e.error = ""

\* requests.Response.raise_for_status: HTTPError for a 4xx or 5xx status
raise_for_status(resp) == resp.status >= 400 /\ resp.status < 600

----------------------------------------------------------------------------
\* retry_with_backoff

RECURSIVE Pow2(_)
Pow2(n) == IF n <= 0 THEN 1 ELSE 2 * Pow2(n - 1)

\* wait_time = (2 ** attempt) * RETRY_DELAY
WaitTimeShifted(a) == Pow2(a + 1) * RETRY_DELAY
WaitTimeLinear(a) == (a + 1) * RETRY_DELAY
wait_time(a) == Pow2(a) * RETRY_DELAY

\* `for attempt in range(max_retries)`: the loop body runs for this attempt
InRange(a, m) == a >= 0 /\ a < m

\* `if attempt == max_retries - 1: raise e`
LastAttemptLate(a, m) == a = m
LastAttempt(a, m) == a = m - 1

\* retry_with_backoff(func, max_retries=m) is entered.
RetryDirect(m) ==
    /\ rpc = "idle"
    /\ rpc' = "loop"
    /\ caller' = "direct"
    /\ max_retries' = m
    /\ attempt' = 0
    /\ UNCHANGED <<trace, result, raised, fetch_out>>
    /\ UNCHANGED <<archVars, nameVars, ligaVars, uiVars>>

\* fetch_liga_data / fetch_game_details enter the wrapper with the default count.
FetchStart(who) ==
    /\ rpc = "idle"
    /\ rpc' = "loop"
    /\ caller' = who
    /\ max_retries' = DEFAULT_RETRY_COUNT
    /\ attempt' = 0
    /\ UNCHANGED <<trace, result, raised, fetch_out>>
    /\ UNCHANGED <<archVars, nameVars, ligaVars, uiVars>>

\* One iteration of the loop: func is called and answers with outcome o.
Attempt(o) ==
    /\ rpc = "loop"
    /\ InRange(attempt, max_retries)
    /\ IF Returns(o)
       THEN \* return func(*args, **kwargs)
            /\ trace' = Append(trace, CallEvent(o))
            /\ result' = Response(o.status)
            /\ rpc' = "returned"
            /\ UNCHANGED <<attempt, raised>>
       ELSE IF LastAttempt(attempt, max_retries)
            THEN \* raise e
                 /\ trace' = Append(trace, CallEvent(o))
                 /\ raised' = o.error
                 /\ rpc' = "raised"
                 /\ UNCHANGED <<attempt, result>>
            ELSE \* time.sleep(wait_time), next iteration
                 /\ trace' = Append(Append(trace, CallEvent(o)),
                                    SleepEvent(wait_time(attempt)))
                 /\ attempt' = attempt + 1
                 /\ UNCHANGED <<rpc, result, raised>>
    /\ UNCHANGED <<caller, max_retries, fetch_out>>
    /\ UNCHANGED <<archVars, nameVars, ligaVars, uiVars>>

\* The loop is exhausted without return or raise: the function ends, returning None.
FallThrough ==
    /\ rpc = "loop"
    /\ ~InRange(attempt, max_retries)
    /\ rpc' = "fell_through"
    /\ UNCHANGED <<caller, max_retries, attempt, trace, result, raised, fetch_out>>
    /\ UNCHANGED <<archVars, nameVars, ligaVars, uiVars>>

\* The rest of fetch_liga_data / fetch_game_details after the wrapper:
\* response.raise_for_status() outside the wrapper, both except clauses
\* hand back an empty result.
FetchFinish ==
    /\ caller \in {"fetch_liga_data", "fetch_game_details"}
    /\ rpc \in {"returned", "raised"}
    /\ fetch_out = "none"
    /\ fetch_out' = IF rpc = "raised" \/ raise_for_status(result)
                    THEN "error" ELSE "data"
    /\ UNCHANGED <<rpc, caller, max_retries, attempt, trace, result, raised>>
    /\ UNCHANGED <<archVars, nameVars, ligaVars, uiVars>>

NextRetry ==
    \/ \E m \in 0..MaxRetries : RetryDirect(m)
    \/ \E who \in {"fetch_liga_data", "fetch_game_details"} : FetchStart(who)
    \/ \E o \in CallOutcomes : Attempt(o)
    \/ FallThrough
    \/ FetchFinish


----------------------------------------------------------------------------
\* BasketballArchive: what the upstream can answer

SeqsUpTo(S, n) == UNION {[1..k -> S] : k \in 0..n}

\* Optional[int]: a next_start_row, or None
None == [some |-> FALSE, row |-> 0]
Some(n) == [some |-> TRUE, row |-> n]

\* A navigation link: its href carries startrow=<row_num>, or no startrow at all.
Link(n) == [startrow |-> TRUE, row_num |-> n]
Links == {Link(n) : n \in 0..MaxOffset} \cup {[startrow |-> FALSE, row_num |-> 0]}

LeagueIds == {"101", "102"}

\* A row of the league table: how many sportItem cells it has, and the
\* liga_id of the Action=107 link of its action cell ("" when there is none).
LeagueRow(n, id) == [cells |-> n, liga_id |-> id]

\* The rows one page of the league table can carry.
LeaguePageRows ==
    {<<>>, <<LeagueRow(7, "101")>>, <<LeagueRow(7, "102")>>,
     <<LeagueRow(6, "101"), LeagueRow(7, "")>>}

\* The league-listing document: the sportView table with 'Spielkl.' (or
\* none), its rows, the navigation cell (or none) and its links.
LeagueDocs ==
    [has_table : BOOLEAN, rows : LeaguePageRows,
     has_nav : BOOLEAN, links : SeqsUpTo(Links, MaxLinks)]

EmptyDoc == [has_table |-> FALSE, rows |-> <<>>, has_nav |-> FALSE, links |-> <<>>]

\* The answer to one request of the session: the session raises `error`, or
\* a response with a status and a document arrives.
Failed(e) == [error |-> e, status |-> 0, doc |-> EmptyDoc]
Answered(s, d) == [error |-> "", status |-> s, doc |-> d]
NoAnswer == Failed("")

LeagueAnswers ==
    {Failed(e) : e \in TransportErrors}
    \cup {Answered(s, EmptyDoc) : s \in StatusCodes \ {200}}
    \cup {Answered(200, d) : d \in {x \in LeagueDocs :
                                      /\ (~x.has_table => x.rows = <<>>)
                                      /\ (~x.has_nav => x.links = <<>>)}}

\* What session.get/post followed by response.raise_for_status() raises
\* ("" when nothing).
RequestError(ans) ==
    IF ans.error # "" THEN ans.error
    ELSE IF raise_for_status(ans) THEN "HTTPError"
    ELSE ""

LogEntry(op, arg, ans) == [op |-> op, arg |-> arg, error |-> RequestError(ans)]

----------------------------------------------------------------------------
\* _get_leagues_page and _get_all_leagues

\* `if row_num > start_row`
FollowsNotSmaller(row_num, cur) == row_num >= cur
Follows(row_num, cur) == row_num > cur

\* The loop over the navigation links: the first link, in document order,
\* whose startrow is greater than the current one; None when there is none.
RECURSIVE next_link(_, _)
next_link(links, cur) ==
    IF links = <<>> THEN None
    ELSE IF Head(links).startrow /\ Follows(Head(links).row_num, cur)
         THEN Some(Head(links).row_num)
         ELSE next_link(Tail(links), cur)

\* The rows loop: a league_info for every row with at least 7 cells and a liga_id.
RECURSIVE league_infos(_)
league_infos(rows) ==
    IF rows = <<>> THEN <<>>
    ELSE (IF Head(rows).cells >= 7 /\ Head(rows).liga_id # ""
          THEN <<[liga_id |-> Head(rows).liga_id]>>
          ELSE <<>>) \o league_infos(Tail(rows))

\* _get_leagues_page(season_id, start_row): (leagues, next_start_row)
get_leagues_page(ans, cur) ==
    IF RequestError(ans) # ""
    THEN \* except Exception: return [], None
         [leagues |-> <<>>, next |-> None]
    ELSE IF ~ans.doc.has_table
    THEN \* "Could not find main league table"
         [leagues |-> <<>>, next |-> None]
    ELSE [leagues |-> league_infos(ans.doc.rows),
          next |-> IF ans.doc.has_nav THEN next_link(ans.doc.links, cur) ELSE None]

\* _get_all_leagues is entered.
GetAllLeagues ==
    /\ apc = "idle"
    /\ apc' = "leagues"
    /\ all_leagues' = <<>>
    /\ page' = 1
    /\ start_row' = 0
    /\ UNCHANGED <<http_log, last_page, last_next, ret, team_name, temp_left>>
    /\ UNCHANGED <<league_idx, upstream>>
    /\ UNCHANGED <<retryVars, nameVars, ligaVars, uiVars>>

\* One iteration of `while True`: the page at start_row is fetched and
\* parsed, its leagues are appended, and the walk ends or moves on.
LeaguesIteration(ans) ==
    /\ apc = "leagues"
    /\ LET r == get_leagues_page(ans, start_row)
       IN  /\ http_log' = Append(http_log, LogEntry("leagues", start_row, ans))
           /\ last_page' = [ans EXCEPT !.doc.rows = <<>>]
           /\ last_next' = r.next
           /\ all_leagues' = all_leagues \o r.leagues
           /\ IF ~r.next.some
              THEN /\ apc' = "leagues_done"
                   /\ ret' = all_leagues \o r.leagues
                   /\ UNCHANGED <<start_row, page>>
              ELSE /\ start_row' = r.next.row
                   /\ page' = page + 1
                   /\ UNCHANGED <<apc, ret>>
    /\ UNCHANGED <<team_name, temp_left>>
    /\ UNCHANGED <<league_idx, upstream>>
    /\ UNCHANGED <<retryVars, nameVars, ligaVars, uiVars>>

----------------------------------------------------------------------------
\* Python text: a str is a sequence of characters

DigitChars == <<"0", "1", "2", "3", "4", "5", "6", "7", "8", "9">>
IsDigit(c) == \E n \in 1..10 : DigitChars[n] = c
DigitVal(c) == (CHOOSE n \in 1..10 : DigitChars[n] = c) - 1

\* str.lower(), on the letters the model's texts use
lower_char(c) ==
    CASE c = "L" -> "l" [] c = "B" -> "b" [] c = "A" -> "a" [] c = "M" -> "m"
      [] c = "O" -> "o" [] OTHER -> c
lower(s) == [i \in 1..Len(s) |-> lower_char(s[i])]

ContainsAlways(needle, hay) == TRUE

\* `needle in hay`
contains(needle, hay) ==
    \E i \in 0..(Len(hay) - Len(needle)) :
        SubSeq(hay, i + 1, i + Len(needle)) = needle

\* str.endswith(c)
endswith(s, c) == s # <<>> /\ s[Len(s)] = c

\* str.rstrip(c), str.lstrip(c), str.strip()
RECURSIVE rstrip(_, _)
rstrip(s, c) ==
    IF endswith(s, c) THEN rstrip(SubSeq(s, 1, Len(s) - 1), c) ELSE s
RECURSIVE lstrip(_, _)
lstrip(s, c) ==
    IF s # <<>> /\ s[1] = c THEN lstrip(Tail(s), c) ELSE s
strip(s) == lstrip(rstrip(s, " "), " ")

\* str.split(c)[0]: the text before the first c
split_head(s, c) ==
    LET at == {i \in 1..Len(s) : s[i] = c}
    IN  IF at = {} THEN s
        ELSE SubSeq(s, 1, (CHOOSE i \in at : \A j \in at : i <= j) - 1)

\* int(float(s)) raises ValueError unless s, stripped, is a decimal numeral:
\* digits with at most one point (float accepts "nan", int rejects it).
is_decimal(s) ==
    LET dots == {i \in 1..Len(s) : s[i] = "."}
    IN  /\ Cardinality(dots) <= 1
        /\ Len(s) > Cardinality(dots)
        /\ \A i \in (1..Len(s)) \ dots : IsDigit(s[i])
int_float_raises(s) == ~is_decimal(strip(s))

RECURSIVE digits_value(_)
digits_value(s) ==
    IF s = <<>> THEN 0
    ELSE 10 * digits_value(SubSeq(s, 1, Len(s) - 1)) + DigitVal(s[Len(s)])

IntFloatAllDigits(s) == digits_value(SelectSeq(strip(s), IsDigit))

\* int(float(s)) of a decimal numeral: the digits before the point
int_float(s) == digits_value(split_head(strip(s), "."))

\* str(n) of an int n >= 0
RECURSIVE str_int(_)
str_int(n) ==
    IF n < 10 THEN <<DigitChars[n + 1]>>
    ELSE str_int(n \div 10) \o <<DigitChars[(n % 10) + 1]>>

Lions == <<"L", "i", "o", "n", "s">>
Bears == <<"B", "e", "a", "r", "s">>

\* the team_name arguments the operations are called with
TeamFilters == {Lions, <<>>}

\* A date text: well-formed '%d.%m.%Y %H:%M' text naming the instant t, or
\* text that datetime.strptime rejects.
Date(t) == [ok |-> TRUE, t |-> t]
BadDate == [ok |-> FALSE, t |-> 0]

\* The whole document of an answer, for the operations that keep it.
RowsDoc(found, rows) ==
    [has_table |-> found, rows |-> rows, has_nav |-> FALSE, links |-> <<>>]

----------------------------------------------------------------------------
\* _get_league_teams

\* A row of the league's table page: its number of sportItem cells, the
\* texts of the rank, name, games and points cells, and whether the name
\* cell holds a <strike> tag.
TeamRow(n, rank, name, struck) ==
    [cells |-> n, rank |-> rank, name |-> name, struck |-> struck,
     games |-> "10", points |-> "20"]

TeamRowSamples ==
    {TeamRow(5, "1", Lions, FALSE), TeamRow(5, "2", Bears, FALSE),
     TeamRow(5, "3", Lions, TRUE), TeamRow(1, "4", Bears, FALSE),
     TeamRow(2, "5", <<" ", "l", "i", "o", "n", "s", " ", "2">>, FALSE)}

TeamAnswers ==
    {Failed(e) : e \in TransportErrors}
    \cup {Answered(s, EmptyDoc) : s \in StatusCodes \ {200}}
    \cup {Answered(200, RowsDoc(FALSE, <<>>))}
    \cup {Answered(200, RowsDoc(TRUE, rows)) : rows \in SeqsUpTo(TeamRowSamples, MaxRows)}

StrikeTagIgnored(row) == FALSE

\* strike_tag = cells[1].find('strike'): whether the name cell holds one
strike_tag(row) == row.struck

\* The rows loop: a team_info for every row with at least 2 cells whose
\* name cell is not struck through.
RECURSIVE team_infos(_)
team_infos(rows) ==
    IF rows = <<>> THEN <<>>
    ELSE LET row == Head(rows)
         IN  (IF row.cells >= 2 /\ ~strike_tag(row)
              THEN <<[rank |-> row.rank,
                      name |-> strip(row.name),
                      games |-> IF row.cells > 3 THEN row.games ELSE "",
                      points |-> IF row.cells > 4 THEN row.points ELSE ""]>>
              ELSE <<>>) \o team_infos(Tail(rows))

\* _get_league_teams(liga_id, season_id): the list of teams
get_league_teams(ans) ==
    IF RequestError(ans) # ""
    THEN <<>>                          \* except Exception: return []
    ELSE IF ~ans.doc.has_table
    THEN <<>>                          \* "Could not find team table"
    ELSE team_infos(ans.doc.rows)

TeamFoundNever(teams, name) == FALSE

\* find_team_leagues, `for team in teams`: whether a team of the roster
\* carries the searched name
team_found(teams, name) ==
    \E i \in 1..Len(teams) : contains(lower(name), lower(teams[i].name))

GetLeagueTeams(liga_id, ans) ==
    /\ apc = "idle"
    /\ apc' = "teams_done"
    /\ http_log' = Append(http_log, LogEntry("teams", liga_id, ans))
    /\ last_page' = ans
    /\ ret' = get_league_teams(ans)
    /\ UNCHANGED <<start_row, page, all_leagues, last_next, team_name, temp_left>>
    /\ UNCHANGED <<league_idx, upstream>>
    /\ UNCHANGED <<retryVars, nameVars, ligaVars, uiVars>>

----------------------------------------------------------------------------
\* get_away_games (the Excel export)

\* A cell of the DataFrame: NaN, or a value with its str() text.
Cell(s) == [na |-> FALSE, s |-> s]
NaN == [na |-> TRUE, s |-> <<"n", "a", "n">>]

BaseRow ==
    [Spieltag |-> Cell(<<"1">>), Spielnummer |-> Cell(<<"1", "2">>),
     Datum |-> Date(2), Heimmannschaft |-> Cell(Bears),
     Gastmannschaft |-> Cell(Lions), Endstand |-> Cell(<<"8", ":", "7">>)]

\* The rows an export sheet can carry: the base row with one field varied.
ExportRowSamples ==
    {BaseRow}
    \cup {[BaseRow EXCEPT !.Spieltag = v] :
            v \in {NaN, Cell(<<"1", "*">>), Cell(<<"2", ".", "0">>)}}
    \cup {[BaseRow EXCEPT !.Spielnummer = v] :
            v \in {NaN, Cell(<<"1", "2", ".", "0">>),
                   Cell(<<"7", ".", "0", "*">>), Cell(<<"x">>)}}
    \cup {[BaseRow EXCEPT !.Datum = v] : v \in {Date(1), BadDate}}
    \cup {[BaseRow EXCEPT !.Spielnummer = Cell(<<"1", "3">>), !.Datum = Date(1)]}
    \cup {[BaseRow EXCEPT !.Gastmannschaft = Cell(<<" ", "l", "i", "o", "n", "s", "*">>)]}
    \cup {[BaseRow EXCEPT !.Heimmannschaft = Cell(Lions), !.Gastmannschaft = Cell(Bears)]}
    \cup {[BaseRow EXCEPT !.Endstand = NaN]}

\* The export answer: has_table says whether pd.read_excel can read the
\* content with the 6 column names.
ExportAnswers ==
    {Failed(e) : e \in TransportErrors}
    \cup {Answered(s, EmptyDoc) : s \in StatusCodes \ {200}}
    \cup {Answered(200, RowsDoc(FALSE, <<>>))}
    \cup {Answered(200, RowsDoc(TRUE, rows)) : rows \in SeqsUpTo(ExportRowSamples, MaxRows)}

\* The body of `for _, row in df.iterrows()`: the game_info of the row, or
\* nothing when the row is skipped or its conversion raises.
export_game(row, team) ==
    IF row.Spieltag.na \/ row.Spielnummer.na \/ endswith(row.Spieltag.s, "*")
    THEN <<>>
    ELSE LET home_team == rstrip(strip(row.Heimmannschaft.s), "*")
             away_team == rstrip(strip(row.Gastmannschaft.s), "*")
             tag == split_head(row.Spieltag.s, "*")
             nr == split_head(row.Spielnummer.s, "*")
         IN  IF ~contains(lower(team), lower(away_team)) THEN <<>>
             ELSE IF int_float_raises(tag) \/ int_float_raises(nr)
             THEN <<>>                 \* except Exception: continue
             ELSE <<[spieltag |-> str_int(int_float(tag)),
                     nummer |-> str_int(int_float(nr)),
                     datum |-> row.Datum,
                     home_team |-> home_team,
                     away_team |-> away_team,
                     score |-> IF row.Endstand.na THEN <<>>
                               ELSE strip(row.Endstand.s)]>>

RECURSIVE export_games(_, _)
export_games(rows, team) ==
    IF rows = <<>> THEN <<>>
    ELSE export_game(Head(rows), team) \o export_games(Tail(rows), team)

\* games.sort(key=lambda x: datetime.strptime(x['datum'], ...)): a stable
\* sort by the parsed date; strptime raises on a malformed date.
sort_raises(games) == \E i \in 1..Len(games) : ~games[i].datum.ok

RECURSIVE insert_by_date(_, _)
insert_by_date(g, sorted) ==
    IF sorted = <<>> THEN <<g>>
    ELSE IF g.datum.t < Head(sorted).datum.t THEN <<g>> \o sorted
    ELSE <<Head(sorted)>> \o insert_by_date(g, Tail(sorted))

RECURSIVE sort_by_date(_)
sort_by_date(games) ==
    IF games = <<>> THEN <<>>
    ELSE insert_by_date(games[Len(games)],
                        sort_by_date(SubSeq(games, 1, Len(games) - 1)))

\* get_away_games(league_info, team_name): the games it returns, and
\* whether its temporary file is left behind.
get_away_games(ans, team) ==
    IF RequestError(ans) # ""
    THEN [games |-> <<>>, temp_left |-> FALSE]    \* no file was created yet
    ELSE IF ~ans.doc.has_table
    THEN [games |-> <<>>, temp_left |-> TRUE]     \* read_excel raised before os.unlink
    ELSE LET games == export_games(ans.doc.rows, team)
         IN  IF sort_raises(games)
             THEN [games |-> <<>>, temp_left |-> FALSE]   \* outer except: return []
             ELSE [games |-> sort_by_date(games), temp_left |-> FALSE]

GetAwayGames(liga_id, team, ans) ==
    /\ apc = "idle"
    /\ apc' = "games_done"
    /\ team_name' = team
    /\ http_log' = Append(http_log, LogEntry("export", liga_id, ans))
    /\ last_page' = ans
    /\ ret' = get_away_games(ans, team).games
    /\ temp_left' = get_away_games(ans, team).temp_left
    /\ UNCHANGED <<start_row, page, all_leagues, last_next>>
    /\ UNCHANGED <<league_idx, upstream>>
    /\ UNCHANGED <<retryVars, nameVars, ligaVars, uiVars>>

----------------------------------------------------------------------------
\* _get_schedule_page (the HTML schedule)

\* A row of the schedule table: its number of sportItem cells, the indexes of
\* the cells that hold a <strike> tag, and the texts of its cells.
SchedRow(n, struck, nr, datum, home, away) ==
    [cells |-> n, struck |-> struck, spieltag |-> <<"1">>, nummer |-> nr,
     datum |-> datum, home |-> home, away |-> away, score |-> <<"8", ":", "7">>]

\* The rows one schedule page can carry.
SchedPageRows ==
    {<<>>,
     <<SchedRow(6, {}, <<"1", "2">>, Date(2), Bears, Lions)>>,
     <<SchedRow(6, {}, <<"1", "3">>, Date(1), Bears, Lions)>>,
     <<SchedRow(6, {}, <<"1", "2">>, Date(2), Bears, Lions),
       SchedRow(6, {}, <<" ", "1", "2">>, Date(2), Bears, Lions)>>,
     <<SchedRow(6, {}, <<"1", "2">>, Date(2), Bears, Lions),
       SchedRow(6, {}, <<"1", "3">>, Date(1), Bears, Lions)>>,
     <<SchedRow(6, {0}, <<"1", "4">>, Date(1), Bears, Lions)>>,
     <<SchedRow(6, {4}, <<"1", "5">>, Date(1), Bears, Lions)>>,
     <<SchedRow(6, {}, <<"1", "6">>, Date(1), Lions, Bears)>>,
     <<SchedRow(5, {}, <<"1", "7">>, Date(1), Bears, Lions)>>}

\* The navigation links one schedule page can carry (none, forward, back
\* and forward, or two forward links in descending order).
SchedPageLinks ==
    {<<>>, <<Link(1)>>, <<Link(0), Link(2)>>, <<Link(2), Link(1)>>}

SchedAnswers ==
    {Failed(e) : e \in TransportErrors}
    \cup {Answered(s, EmptyDoc) : s \in StatusCodes \ {200}}
    \cup {Answered(200, RowsDoc(FALSE, <<>>))}
    \cup {Answered(200, [has_table |-> TRUE, rows |-> rows,
                         has_nav |-> links # <<>>, links |-> links]) :
            rows \in SchedPageRows, links \in SchedPageLinks}

\* The rows loop with its seen_game_numbers set, which is created anew in
\* every call of _get_schedule_page.
RECURSIVE schedule_games(_, _, _)
schedule_games(rows, team, seen_game_numbers) ==
    IF rows = <<>> THEN <<>>
    ELSE LET row == Head(rows)
             game_number == strip(row.nummer)
             away_team == strip(row.away)
         IN  IF row.cells >= 6 /\ 0 \notin row.struck
                /\ game_number \notin seen_game_numbers
                /\ contains(lower(team), lower(away_team))
             THEN <<[spieltag |-> strip(row.spieltag),
                     nummer |-> game_number,
                     datum |-> row.datum,
                     home_team |-> strip(row.home),
                     away_team |-> away_team,
                     score |-> strip(row.score)]>>
                  \o schedule_games(Tail(rows), team,
                                    seen_game_numbers \cup {game_number})
             ELSE schedule_games(Tail(rows), team, seen_game_numbers)

\* The pagination loop of _get_schedule_page: the first link whose startrow
\* is greater than current_row, then break.
schedule_next_link(links, current_row) == next_link(links, current_row)

\* _get_schedule_page(liga_id, season_id, start_row, team_name):
\* (games, next_start_row)
get_schedule_page(ans, cur, team) ==
    IF RequestError(ans) # ""
    THEN [games |-> <<>>, next |-> None]      \* except Exception: return [], None
    ELSE IF ~ans.doc.has_table
    THEN [games |-> <<>>, next |-> None]      \* "Could not find game table"
    ELSE [games |-> schedule_games(ans.doc.rows, team, {}),
          next |-> IF ans.doc.has_nav
                   THEN schedule_next_link(ans.doc.links, cur) ELSE None]

\* A walk over the HTML schedule of one league begins.
GetSchedule(team) ==
    /\ apc = "idle"
    /\ apc' = "schedule"
    /\ team_name' = team
    /\ ret' = <<>>
    /\ page' = 1
    /\ start_row' = 0
    /\ UNCHANGED <<all_leagues, http_log, last_page, last_next, temp_left>>
    /\ UNCHANGED <<league_idx, upstream>>
    /\ UNCHANGED <<retryVars, nameVars, ligaVars, uiVars>>

\* One step of the walk: the page at start_row is fetched and parsed by
\* _get_schedule_page, its games are appended to the games of the walk, and
\* the walk ends or moves on to the page's next_start_row.
SchedulePage(ans) ==
    /\ apc = "schedule"
    /\ page <= MaxSchedPages
    /\ LET r == get_schedule_page(ans, start_row, team_name)
       IN  /\ http_log' = Append(http_log, LogEntry("schedule", start_row, ans))
           /\ last_page' = [ans EXCEPT !.doc.links = <<>>]
           /\ last_next' = r.next
           /\ ret' = ret \o r.games
           /\ IF ~r.next.some
              THEN /\ apc' = "schedule_done"
                   /\ UNCHANGED <<start_row, page>>
              ELSE /\ start_row' = r.next.row
                   /\ page' = page + 1
                   /\ UNCHANGED apc
    /\ UNCHANGED <<all_leagues, team_name, temp_left>>
    /\ UNCHANGED <<league_idx, upstream>>
    /\ UNCHANGED <<retryVars, nameVars, ligaVars, uiVars>>

\* (each guard is repeated before its quantifier, so that the answers are
\* enumerated only where the action is enabled)
NextArchive ==
    \/ GetAllLeagues
    \/ apc = "leagues" /\ \E ans \in LeagueAnswers : LeaguesIteration(ans)
    \/ apc = "idle" /\ \E id \in LeagueIds, ans \in TeamAnswers : GetLeagueTeams(id, ans)
    \/ apc = "idle" /\ \E id \in LeagueIds, team \in TeamFilters, ans \in ExportAnswers :
                           GetAwayGames(id, team, ans)
    \/ \E team \in TeamFilters : GetSchedule(team)
    \/ apc = "schedule" /\ \E ans \in SchedAnswers : SchedulePage(ans)

----------------------------------------------------------------------------
\* find_team_leagues

\* What the upstream answers to the requests of one search: listing pages
\* with one league each and at most one further page, rosters, exports.
FindScanAnswers ==
    {Failed("ConnectionError")}
    \cup {Answered(200, [has_table |-> TRUE, rows |-> <<LeagueRow(7, id)>>,
                         has_nav |-> links # <<>>, links |-> links]) :
            id \in LeagueIds, links \in {<<>>, <<Link(1)>>}}

FindTeamAnswers ==
    {Failed("ConnectionError"), Answered(503, EmptyDoc),
     Answered(200, RowsDoc(FALSE, <<>>)),
     Answered(200, RowsDoc(TRUE, <<TeamRow(5, "1", Bears, FALSE)>>)),
     Answered(200, RowsDoc(TRUE, <<TeamRow(5, "1", Lions, FALSE),
                                   TeamRow(2, "5", <<" ", "l", "i", "o", "n", "s", " ", "2">>, FALSE)>>)),
     Answered(200, RowsDoc(TRUE, <<TeamRow(5, "3", Lions, TRUE),
                                   TeamRow(5, "2", Bears, FALSE)>>)),
     Answered(200, RowsDoc(TRUE, <<TeamRow(5, "2", Bears, FALSE),
                                   TeamRow(5, "1", Lions, FALSE)>>))}

FindExportAnswers ==
    {Failed("Timeout"),
     Answered(200, RowsDoc(FALSE, <<>>)),
     Answered(200, RowsDoc(TRUE, <<BaseRow>>)),
     Answered(200, RowsDoc(TRUE,
        <<BaseRow,
          [BaseRow EXCEPT !.Heimmannschaft = Cell(Lions), !.Gastmannschaft = Cell(Bears)]>>))}

\* `for team in teams: if ... in team['name'].lower()`: the first team of
\* the roster that carries the searched name
found_team(teams, name) ==
    teams[CHOOSE i \in 1..Len(teams) :
            /\ contains(lower(name), lower(teams[i].name))
            /\ \A j \in 1..(i - 1) : ~contains(lower(name), lower(teams[j].name))]

LeagueRaisesOnError(teams_ans, export_ans) == RequestError(teams_ans) # ""

\* Whether an exception leaves the body of `for league in all_leagues`:
\* _get_league_teams and get_away_games catch every Exception themselves.
league_raises(teams_ans, export_ans) == FALSE

\* find_team_leagues is entered and calls _get_all_leagues.
FindTeamLeagues(team) ==
    /\ apc = "idle"
    /\ apc' = "find_scan"
    /\ team_name' = team
    /\ all_leagues' = <<>>
    /\ page' = 1
    /\ start_row' = 0
    /\ ret' = <<>>
    /\ league_idx' = 0
    /\ UNCHANGED <<http_log, last_page, last_next, temp_left, upstream>>
    /\ UNCHANGED <<retryVars, nameVars, ligaVars, uiVars>>

\* One iteration of the `while True` of _get_all_leagues inside the search;
\* after the last page the loop over the leagues begins, or the search
\* returns at once when no league was found.
FindScanPage(ans) ==
    /\ apc = "find_scan"
    /\ LET r == get_leagues_page(ans, start_row)
           leagues == all_leagues \o r.leagues
       IN  /\ http_log' = Append(http_log, LogEntry("leagues", start_row, ans))
           /\ last_page' = [ans EXCEPT !.doc.rows = <<>>]
           /\ last_next' = r.next
           /\ all_leagues' = leagues
           /\ IF ~r.next.some
              THEN /\ apc' = IF leagues = <<>> THEN "find_done" ELSE "find_loop"
                   /\ league_idx' = 1
                   /\ UNCHANGED <<start_row, page>>
              ELSE /\ start_row' = r.next.row
                   /\ page' = page + 1
                   /\ UNCHANGED <<apc, league_idx>>
    /\ UNCHANGED <<ret, team_name, temp_left, upstream>>
    /\ UNCHANGED <<retryVars, nameVars, ligaVars, uiVars>>

\* One round of `for league in all_leagues`: the roster is fetched, and when
\* a team carries the name the export is fetched and the league is appended
\* to matching_leagues; after the last league the search returns.
FindLeague(teams_ans, export_ans) ==
    /\ apc = "find_loop"
    /\ LET league == all_leagues[league_idx]
           teams == get_league_teams(teams_ans)
           found == team_found(teams, team_name)
           away == get_away_games(export_ans, team_name)
           roster_req == LogEntry("teams", league.liga_id, teams_ans)
           export_req == LogEntry("export", league.liga_id, export_ans)
       IN  IF league_raises(teams_ans, export_ans)
           THEN /\ apc' = "find_raised"
                /\ http_log' = Append(http_log, roster_req)
                /\ upstream' = Append(upstream, [teams |-> teams_ans, export |-> NoAnswer])
                /\ UNCHANGED <<ret, temp_left, league_idx, last_page>>
           ELSE /\ http_log' = IF found THEN http_log \o <<roster_req, export_req>>
                                        ELSE Append(http_log, roster_req)
                /\ upstream' = Append(upstream,
                                 [teams |-> teams_ans,
                                  export |-> IF found THEN export_ans ELSE NoAnswer])
                /\ last_page' = IF found THEN export_ans ELSE teams_ans
                /\ ret' = IF found
                          THEN Append(ret, [liga_id |-> league.liga_id,
                                            teams |-> teams,
                                            found_team |-> found_team(teams, team_name),
                                            away_games |-> away.games])
                          ELSE ret
                /\ temp_left' = IF found THEN (temp_left \/ away.temp_left) ELSE temp_left
                /\ league_idx' = league_idx + 1
                /\ apc' = IF league_idx = Len(all_leagues) THEN "find_done" ELSE "find_loop"
    /\ UNCHANGED <<start_row, page, all_leagues, last_next, team_name>>
    /\ UNCHANGED <<retryVars, nameVars, ligaVars, uiVars>>

NextFind ==
    \/ \E team \in TeamFilters : FindTeamLeagues(team)
    \/ apc = "find_scan" /\ \E ans \in FindScanAnswers : FindScanPage(ans)
    \/ apc = "find_loop" /\ \E teams_ans \in FindTeamAnswers, export_ans \in FindExportAnswers :
                                FindLeague(teams_ans, export_ans)

----------------------------------------------------------------------------
\* More of Python's text

\* str.split(): the whitespace-separated tokens of s
RECURSIVE split_ws(_)
split_ws(s) ==
    LET t == lstrip(s, " ")
    IN  IF t = <<>> THEN <<>>
        ELSE LET tok == split_head(t, " ")
             IN  <<tok>> \o split_ws(SubSeq(t, Len(tok) + 1, Len(t)))

\* " ".join(tokens)
RECURSIVE join_sp(_)
join_sp(tokens) ==
    IF tokens = <<>> THEN <<>>
    ELSE IF Len(tokens) = 1 THEN tokens[1]
    ELSE tokens[1] \o <<" ">> \o join_sp(Tail(tokens))

\* str.startswith(prefix)
startswith(s, prefix) ==
    Len(prefix) <= Len(s) /\ SubSeq(s, 1, Len(prefix)) = prefix

\* key.split(",", 1)[1]: the text after the first comma
after_comma(key) == SubSeq(key, Len(split_head(key, ",")) + 2, Len(key))

\* f"{lastname}, {firstname}"
name_key(lastname, firstname) == lastname \o <<",", " ">> \o firstname

\* A dict is the sequence of its items [k, v] in insertion order: assigning
\* to a key it holds replaces the value and keeps the key's position.
dict_has(d, k) == \E i \in 1..Len(d) : d[i].k = k
dict_get(d, k) == d[CHOOSE i \in 1..Len(d) : d[i].k = k].v
dict_set(d, k, v) ==
    IF dict_has(d, k)
    THEN [i \in 1..Len(d) |-> IF d[i].k = k THEN [k |-> k, v |-> v] ELSE d[i]]
    ELSE Append(d, [k |-> k, v |-> v])

----------------------------------------------------------------------------
\* DataProcessor.build_birthday_lookup

\* the most rows the uploaded player list carries
MaxRosterRows == 2

Anna == <<"A", "n", "n", "a">>
Maria == <<"M", "a", "r", "i", "a">>
Lena == <<"L", "e", "n", "a">>
Mai == <<"M", "a", "i">>
Ott == <<"O", "t", "t">>

\* The Geburtsdatum cell of a row: a pd.Timestamp (the day d of January
\* 2000), NaN, or a text that pd.to_datetime cannot parse.
Timestamp(d) == [kind |-> "Timestamp", d |-> d]
NoDate == [kind |-> "NaN", d |-> 0]
BadDateText == [kind |-> "text", d |-> 0]

\* Timestamp.strftime('%d.%m.%Y')
strftime(ts) == <<"0", DigitChars[ts.d + 1], ".", "0", "1", ".", "2", "0", "0", "0">>

RosterRow(lastname, firstname, date) ==
    [Nachname |-> lastname, Vorname |-> firstname, Geburtsdatum |-> date]

\* The rows a player list can carry.
RosterRowSamples ==
    {RosterRow(Mai, Anna, Timestamp(1)),
     RosterRow(Mai, Anna \o <<" ">> \o Maria, Timestamp(2)),
     RosterRow(Mai, Anna \o <<"m", "a", "r", "i", "a">>, Timestamp(3)),
     RosterRow(Mai, Anna \o <<" ">> \o Lena, Timestamp(4)),
     RosterRow(Mai \o <<" ">>, <<"a", "n", "n", "a", " ", " ">> \o Maria, Timestamp(5)),
     RosterRow(Mai, Maria \o <<" ">> \o Anna \o <<" ">> \o Lena, NoDate),
     RosterRow(Ott, Anna, Timestamp(6)),
     RosterRow(Mai, Lena, BadDateText),
     RosterRow(<<"M", "*", "i">>, Anna, Timestamp(7))}

Rosters == SeqsUpTo(RosterRowSamples, MaxRosterRows)

\* The body of `for _, row in df.iterrows()`: the lookup after the row.
lookup_row(birthday_lookup_, row) ==
    LET lastname == strip(row.Nachname)
        firstname == strip(row.Vorname)
    IN  IF row.Geburtsdatum.kind = "NaN" THEN birthday_lookup_
        ELSE IF row.Geburtsdatum.kind # "Timestamp"
        THEN birthday_lookup_          \* pd.to_datetime raised: continue
        ELSE LET birthday == strftime(row.Geburtsdatum)
                 basic == dict_set(birthday_lookup_, name_key(lastname, firstname), birthday)
                 firstname_parts == split_ws(firstname)
             IN  IF Len(firstname_parts) > 0
                 THEN dict_set(basic, name_key(lastname, firstname_parts[1]), birthday)
                 ELSE basic

RECURSIVE build_birthday_lookup(_)
build_birthday_lookup(df) ==
    IF df = <<>> THEN <<>>
    ELSE lookup_row(build_birthday_lookup(SubSeq(df, 1, Len(df) - 1)), df[Len(df)])

\* The roster is uploaded and its lookup is built.
BuildBirthdayLookup(df) ==
    /\ npc = "idle"
    /\ npc' = "built"
    /\ roster' = df
    /\ birthday_lookup' = build_birthday_lookup(df)
    /\ UNCHANGED <<player, lookups, name_text, birthday_text, has_unknown_birthdays>>
    /\ UNCHANGED <<retryVars, archVars, ligaVars, uiVars>>

----------------------------------------------------------------------------
\* BasketballClient._parse_game_details: the rows of the guest's players

NoPlayer == [Nachname |-> <<>>, Vorname |-> <<>>, is_masked |-> FALSE]

Nachname == <<"N", "a", "c", "h", "n", "a", "m", "e">>
Vorname == <<"V", "o", "r", "n", "a", "m", "e">>

\* A row of the player table: its number of cells and the texts of the
\* first two.
PlayerRow(n, c0, c1) == [cells |-> n, c0 |-> c0, c1 |-> c1]

PlayerRowSamples ==
    {PlayerRow(3, Mai, Anna),
     PlayerRow(3, Mai, Anna \o <<" ">> \o Maria),
     PlayerRow(3, Mai, Maria \o <<" ">> \o Anna),
     PlayerRow(3, Mai, Maria),
     PlayerRow(3, Mai, Lena),
     PlayerRow(2, <<" ", "M", "A", "i", " ">>, Anna \o <<" ", " ">> \o Lena),
     PlayerRow(3, <<"M", "*", "i">>, Anna),
     PlayerRow(3, <<"M", "a", "*">>, Anna \o <<" ">> \o Maria),
     PlayerRow(3, Nachname, Vorname),
     PlayerRow(3, <<>>, Anna),
     PlayerRow(1, Mai, Anna)}

IsMaskedNever(lastname) == FALSE

\* "*" in lastname
is_masked(lastname) == contains(<<"*">>, lastname)

\* whether the row makes a player
is_player_row(row) ==
    /\ row.cells >= 2
    /\ strip(row.c0) # <<>> /\ strip(row.c1) # <<>>
    /\ strip(row.c0) # Nachname /\ strip(row.c1) # Vorname

parse_player(row) ==
    [Nachname |-> strip(row.c0), Vorname |-> strip(row.c1),
     is_masked |-> is_masked(strip(row.c0))]

ParsePlayerRow(row) ==
    /\ npc = "built"
    /\ IF is_player_row(row)
       THEN npc' = "parsed" /\ player' = parse_player(row)
       ELSE npc' = "no_player" /\ UNCHANGED player
    /\ UNCHANGED <<roster, birthday_lookup, lookups, name_text, birthday_text,
                   has_unknown_birthdays>>
    /\ UNCHANGED <<retryVars, archVars, ligaVars, uiVars>>

----------------------------------------------------------------------------
\* PDFGenerator._lookup_birthday and the player loop of generate_pdf

\* normalize(name): " ".join(name.strip().split()).lower()
normalize(name) == lower(join_sp(split_ws(strip(name))))

\* {normalize(key): value for key, value in birthday_lookup.items()}
RECURSIVE normalized_lookup(_)
normalized_lookup(d) ==
    IF d = <<>> THEN <<>>
    ELSE dict_set(normalized_lookup(SubSeq(d, 1, Len(d) - 1)),
                  normalize(d[Len(d)].k), d[Len(d)].v)

Found(birthday) == [birthday |-> birthday, found |-> TRUE]
NotFound == [birthday |-> <<>>, found |-> FALSE]

PartInAlways(part, key_firstname) == TRUE

\* `part in key_firstname`
part_in(part, key_firstname) == contains(part, key_firstname)

CompositeNever(key, lastname, full_firstname) == FALSE

\* step 3: the item of the lookup is a composite match for the player
composite_match(key, lastname, full_firstname) ==
    /\ startswith(key, lastname \o <<",">>)
    /\ LET key_firstname == strip(after_comma(key))
           player_name_parts == split_ws(full_firstname)
       IN  \A n \in 1..Len(player_name_parts) :
               part_in(player_name_parts[n], key_firstname)

\* step 1: `normalized_full_key in normalized_lookup`
exact_match(key, d) == dict_has(d, key)

FirstPartNever(key, d) == FALSE

\* step 2: `normalized_first_key in normalized_lookup`
first_part_match(key, d) == dict_has(d, key)

\* _lookup_birthday(player, birthday_lookup): (birthday, found)
lookup_birthday(player_, birthday_lookup_) ==
    LET lastname == normalize(player_.Nachname)
        full_firstname == normalize(player_.Vorname)
        normalized_full_key == name_key(lastname, full_firstname)
        d == normalized_lookup(birthday_lookup_)
        normalized_first_key == name_key(lastname, split_ws(full_firstname)[1])
        composite == {i \in 1..Len(d) : composite_match(d[i].k, lastname, full_firstname)}
    IN  IF exact_match(normalized_full_key, d)
        THEN Found(dict_get(d, normalized_full_key))
        ELSE IF full_firstname # <<>> /\ first_part_match(normalized_first_key, d)
        THEN Found(dict_get(d, normalized_first_key))
        ELSE IF composite # {}
        THEN Found(d[CHOOSE i \in composite : \A j \in composite : i <= j].v)
        ELSE NotFound

\* "Geblocked durch DSGVO"
MaskedNameText == <<"G", "e", "b", "l", "o", "c", "k", "e", "d", " ", "d", "u", "r", "c", "h", " ", "D", "S", "G", "V", "O">>

\* One round of `for idx, player in enumerate(players[:5], start=2)`.
FillPlayerRow ==
    /\ npc = "parsed"
    /\ npc' = "filled"
    /\ IF player.is_masked
       THEN /\ name_text' = MaskedNameText
            /\ birthday_text' = <<>>
            /\ UNCHANGED <<lookups, has_unknown_birthdays>>
       ELSE LET r == lookup_birthday(player, birthday_lookup)
            IN  /\ lookups' = Append(lookups, r)
                /\ birthday_text' = r.birthday
                /\ has_unknown_birthdays' = (has_unknown_birthdays \/ ~r.found)
                /\ name_text' = name_key(player.Nachname, player.Vorname)
    /\ UNCHANGED <<roster, birthday_lookup, player>>
    /\ UNCHANGED <<retryVars, archVars, ligaVars, uiVars>>

NextNames ==
    \/ npc = "idle" /\ \E df \in Rosters : BuildBirthdayLookup(df)
    \/ npc = "built" /\ \E row \in PlayerRowSamples : ParsePlayerRow(row)
    \/ FillPlayerRow

----------------------------------------------------------------------------
\* The specifications

\* The state before any operation is called.
----------------------------------------------------------------------------
\* The league parser: BasketballClient._parse_liga_data and the parsing part
\* of fetch_liga_data in app.py

MaxTables == 2

Klasse == <<"K", "l", "a", "s", "s", "e">>
Alter == <<"A", "l", "t", "e", "r">>
Liganame == <<"L", "i", "g", "a", "n", "a", "m", "e">>
Liganr == <<"L", "i", "g", "a", "n", "r">>

\* One <tr> below the first of a table: the number of its <td>, the text of
\* cells[0] and the liga_id of the Action=102 link of cells[7] ("None" when
\* the cell has no such link).
LigaTr(n, klasse, liga_id) == [cells |-> n, Klasse |-> klasse, Liga_ID |-> liga_id]

\* One <table class="sportView">: the texts of its td.sportViewHeader cells
\* and its rows after the first.
SportView(headers, rows) == [headers |-> headers, rows |-> rows]

SportViewSamples ==
    {SportView(<<Klasse, Alter, Liganame>>, <<LigaTr(8, "Oberliga", "101")>>),
     SportView(<<Liganr, Liganame, <<" ">> \o Alter \o <<" ">>, Klasse>>,
               <<LigaTr(7, "Kreisliga", "None"), LigaTr(8, "Bezirksliga", "102")>>),
     SportView(<<Klasse, Alter, Liganame>>, <<>>),
     SportView(<<Klasse, Alter>>, <<LigaTr(8, "Landesliga", "103")>>),
     SportView(<<Klasse, Alter \o Liganame>>, <<LigaTr(8, "Regionalliga", "None")>>),
     SportView(<<>>, <<LigaTr(8, "Kreisklasse", "104")>>)}

\* A document: whether it holds <form name="ligaliste">, and its sportView
\* tables in document order.
LigaDoc(has_form, tables) == [has_form |-> has_form, tables |-> tables]
NoLigaDoc == LigaDoc(FALSE, <<>>)
LigaDocs == {LigaDoc(f, t) : f \in BOOLEAN, t \in SeqsUpTo(SportViewSamples, MaxTables)}

\* `[h.get_text(strip=True) for h in headers]`
header_texts(table) == {strip(table.headers[i]) : i \in 1..Len(table.headers)}

\* `if headers: ... if {"Klasse", "Alter", "Liganame"}.issubset(header_texts)`
is_liga_table(table) ==
    /\ table.headers # <<>>
    /\ {Klasse, Alter, Liganame} \subseteq header_texts(table)

\* `for table in tables: ... target_table = table; break`: the position of
\* the first table that passes, 0 when target_table stays None
find_target_table(tables) ==
    IF \E i \in 1..Len(tables) : is_liga_table(tables[i])
    THEN CHOOSE i \in 1..Len(tables) :
            /\ is_liga_table(tables[i])
            /\ \A j \in 1..(i - 1) : ~is_liga_table(tables[j])
    ELSE 0

\* `for row in rows[1:]: if len(cells) < 8: continue ... data_list.append`
RECURSIVE liga_rows(_)
liga_rows(rows) ==
    IF rows = <<>> THEN <<>>
    ELSE (IF Head(rows).cells < 8 THEN <<>>
          ELSE <<[Klasse |-> Head(rows).Klasse, Liga_ID |-> Head(rows).Liga_ID]>>)
         \o liga_rows(Tail(rows))

\* The parser: the chosen table and the rows of the DataFrame it returns.
parse_liga_data(doc) ==
    IF ~doc.has_form
    THEN [target_table |-> 0, data |-> <<>>]     \* "No 'ligaliste' form found"
    ELSE LET t == find_target_table(doc.tables)
         IN  IF t = 0
             THEN [target_table |-> 0, data |-> <<>>]   \* "No liga table found"
             ELSE [target_table |-> t, data |-> liga_rows(doc.tables[t].rows)]

\* BasketballClient._parse_liga_data(html)
ParseLigaData(doc) ==
    /\ lpc' = "client_parsed"
    /\ liga_doc' = doc
    /\ target_table' = parse_liga_data(doc).target_table
    /\ liga_data' = parse_liga_data(doc).data
    /\ UNCHANGED <<retryVars, archVars, nameVars, uiVars>>

\* fetch_liga_data of app.py, from BeautifulSoup(response.text) on
FetchLigaDataParse(doc) ==
    /\ lpc' = "app_parsed"
    /\ liga_doc' = doc
    /\ target_table' = parse_liga_data(doc).target_table
    /\ liga_data' = parse_liga_data(doc).data
    /\ UNCHANGED <<retryVars, archVars, nameVars, uiVars>>

NextLiga ==
    \/ \E doc \in LigaDocs : ParseLigaData(doc)
    \/ \E doc \in LigaDocs : FetchLigaDataParse(doc)

----------------------------------------------------------------------------
\* The pages of the application: main() of main.py, MainPage of
\* src/ui/pages.py, UIComponents.render_file_upload and SessionState.
\* Streamlit runs the whole script once for each action of the user; a run
\* is a function from st.session_state and the action to st.session_state.

DefaultClubName == "TV Heppenheim"
ClubNames == {"", DefaultClubName}

\* The files a user can put into an uploader.
Files == {"valid", "missing_columns", "unreadable"}

\* What the user did to start a script run.
Click(widget, value) == [widget |-> widget, value |-> value]
NoClick == Click("", "")

\* st.session_state with the values of the widgets, as one record
ui ==
    [step_1_done |-> step_1_done, step_2_done |-> step_2_done,
     step_3_done |-> step_3_done, liga_df |-> liga_df,
     uploaded_df |-> uploaded_df, player_birthdays_df |-> player_birthdays_df,
     match_details |-> match_details,
     player_data_status |-> player_data_status,
     player_upload_status |-> player_upload_status,
     game_data_status |-> game_data_status,
     game_upload_status |-> game_upload_status,
     player_upload |-> player_upload, game_upload |-> game_upload,
     is_logged_in |-> is_logged_in,
     archive_search_done |-> archive_search_done,
     archive_matching_leagues |-> archive_matching_leagues,
     archive_club_name |-> archive_club_name,
     rendered |-> rendered, widgets |-> widgets, run_error |-> run_error,
     archive_message |-> archive_message, rerun |-> FALSE]

\* An exception leaves the page and is caught by `except Exception` of main().
Raise(s, e) == [s EXCEPT !.run_error = e]

\* The run is still going: no exception, no st.experimental_rerun() so far.
Running(s) == s.run_error = "" /\ ~s.rerun

Widget(s, w) == [s EXCEPT !.widgets = @ \cup {w}]

\* Sequencing of two parts of a run: Rest is applied to the session state
\* the part before it leaves behind.
Then(s, Rest(_)) == CHOOSE r \in {Rest(x) : x \in {s}} : TRUE

\* SessionState.update_progress(step)
update_progress(s, step) ==
    CASE step = 1 -> [s EXCEPT !.step_1_done = TRUE]
      [] step = 2 -> [s EXCEPT !.step_2_done = TRUE]
      [] step = 3 -> [s EXCEPT !.step_3_done = TRUE]

\* MainPage._render_step_1; `liga` is what fetch_liga_data returns
render_step_1(s, click) ==
    LET s1 == [s EXCEPT !.rendered = @ \cup {1}]
    IN  IF s1.step_1_done THEN s1
        ELSE LET s2 == Widget(s1, "fetch_liga")
             IN  IF click.widget # "fetch_liga" THEN s2
                 ELSE LET s3 == [s2 EXCEPT !.liga_df = click.value]
                      IN  IF click.value = "empty" THEN s3     \* "Keine Eintraege gefunden."
                          ELSE update_progress(s3, 1)

\* UIComponents.render_file_upload(key=...): the file of the uploader is read
\* and validated unless f"{key}_status" is set. The handler of a failed read
\* calls `logger`, a name components.py does not define: NameError.
render_file_upload(s, key) ==
    LET s1 == Widget(s, key)
        uploaded_file == IF key = "player_upload" THEN s.player_upload ELSE s.game_upload
        status == IF key = "player_upload" THEN s.player_upload_status
                  ELSE s.game_upload_status
    IN  IF uploaded_file = "none" \/ status THEN s1
        ELSE CASE uploaded_file = "unreadable" -> Raise(s1, "NameError")
               [] uploaded_file = "missing_columns" -> s1
               [] uploaded_file = "valid" ->
                    IF key = "player_upload"
                    THEN [s1 EXCEPT !.player_birthdays_df = "df",
                                    !.player_data_status = TRUE,
                                    !.player_upload_status = TRUE]
                    ELSE [s1 EXCEPT !.uploaded_df = "df",
                                    !.game_data_status = TRUE,
                                    !.game_upload_status = TRUE]

\* _render_step_2, `with col1`: the uploader of the player list, or the
\* button that drops the list
render_step_2_col1(s, click) ==
    IF ~s.player_data_status THEN render_file_upload(s, "player_upload")
    ELSE LET s1 == Widget(s, "reset_player")
         IN  IF click.widget # "reset_player" THEN s1
             ELSE [s1 EXCEPT !.player_birthdays_df = "None",
                             !.player_data_status = FALSE,
                             !.player_upload_status = FALSE,
                             !.rerun = TRUE]

\* _render_step_2, `with col2`: the same for the game data
render_step_2_col2(s, click) ==
    IF ~Running(s) THEN s
    ELSE IF ~s.game_data_status THEN render_file_upload(s, "game_upload")
    ELSE LET s1 == Widget(s, "reset_game")
         IN  IF click.widget # "reset_game" THEN s1
             ELSE [s1 EXCEPT !.uploaded_df = "None",
                             !.game_data_status = FALSE,
                             !.game_upload_status = FALSE,
                             !.rerun = TRUE]

\* MainPage._render_step_2
render_step_2(s, click) ==
    Then([s EXCEPT !.rendered = @ \cup {2}], LAMBDA s0 :
    Then(render_step_2_col1(s0, click), LAMBDA s1 :
    Then(render_step_2_col2(s1, click), LAMBDA s2 :
        IF ~Running(s2) THEN s2
        ELSE IF s2.player_data_status /\ s2.game_data_status
        THEN update_progress(s2, 2)
        ELSE s2)))                        \* "Bitte laden Sie beide Dateien hoch"

\* MainPage._render_step_3: `df["Liga_ID"] = ...` on the game data, then the
\* button that loads the game details; the value of the click tells whether
\* details were found.
render_step_3(s, click) ==
    LET s1 == [s EXCEPT !.rendered = @ \cup {3}]
    IN  CASE s1.liga_df = "None" -> Raise(s1, "AttributeError")
          [] s1.liga_df = "empty" -> s1
          [] s1.liga_df = "data" ->
               IF s1.uploaded_df = "None" THEN Raise(s1, "TypeError")
               ELSE LET s2 == Widget(s1, "fetch_details")
                    IN  IF click.widget = "fetch_details" /\ click.value = "games"
                        THEN update_progress([s2 EXCEPT !.match_details = "df"], 3)
                        ELSE s2

\* MainPage._render_step_4, as far as it is rendered
render_step_4(s) == [s EXCEPT !.rendered = @ \cup {4}]

\* MainPage.render_current_season
render_current_season(s, click) ==
    Then(render_step_1(s, click), LAMBDA s1 :
    Then(IF Running(s1) /\ s1.step_1_done THEN render_step_2(s1, click) ELSE s1, LAMBDA s2 :
    Then(IF Running(s2) /\ s2.step_2_done THEN render_step_3(s2, click) ELSE s2, LAMBDA s3 :
        IF Running(s3) /\ s3.step_3_done THEN render_step_4(s3) ELSE s3)))

\* MainPage.render_login_section; the value of the click tells whether the
\* authenticator accepted the credentials
render_login_section(s, click) ==
    LET s1 == Widget(s, "login_form")
    IN  IF click.widget = "login_form" /\ click.value = "success"
        THEN [s1 EXCEPT !.is_logged_in = TRUE]
        ELSE s1

\* The parameters of BasketballArchive.find_team_leagues and the keywords
\* render_archive_section passes to it
FindTeamLeaguesParams == {"filter_params"}
FindTeamLeaguesKeywords == {"progress_placeholder"}

\* Python raises TypeError for a keyword the function does not declare.
call_raises(keywords, params) == ~(keywords \subseteq params)

\* MainPage.render_archive_section up to the search; the value of the click
\* is [club, leagues]: the text of the club name input and what
\* find_team_leagues returns when it runs.
render_archive_section(s, click) ==
    LET club == IF click.widget = "archive_start" THEN click.value.club
                ELSE s.archive_club_name
        s1 == [Widget(s, "archive_start") EXCEPT !.archive_club_name = club]
    IN  IF click.widget # "archive_start" THEN s1
        ELSE IF club = "" THEN [s1 EXCEPT !.archive_message = "warning"]
        ELSE IF call_raises(FindTeamLeaguesKeywords, FindTeamLeaguesParams)
        THEN [s1 EXCEPT !.archive_message = "error"]      \* except Exception
        ELSE [s1 EXCEPT !.archive_matching_leagues = click.value.leagues,
                        !.archive_search_done = TRUE,
                        !.archive_message = IF click.value.leagues # <<>>
                                            THEN "success" ELSE "none_found"]

\* main(), `with tab2`
render_archive_tab(s, click) ==
    IF ~s.is_logged_in THEN render_login_section(s, click)
    ELSE Then(render_archive_section(s, click), LAMBDA s1 :
             IF click.widget = "logout"
             THEN [Widget(s1, "logout") EXCEPT !.is_logged_in = FALSE, !.rerun = TRUE]
             ELSE Widget(s1, "logout"))

\* One execution of main(). When the script ends, Streamlit drops the value
\* of every widget the run did not render; a run stopped by a rerun keeps
\* them.
script_run(s, click) ==
    Then([s EXCEPT !.rendered = {}, !.widgets = {}, !.run_error = "",
                   !.archive_message = "", !.rerun = FALSE], LAMBDA s0 :
    Then(render_current_season(s0, click), LAMBDA s1 :
    Then(IF Running(s1) THEN render_archive_tab(s1, click) ELSE s1, LAMBDA s2 :
        IF s2.rerun THEN s2
        ELSE [s2 EXCEPT !.player_upload = IF "player_upload" \in s2.widgets THEN @ ELSE "none",
                        !.game_upload = IF "game_upload" \in s2.widgets THEN @ ELSE "none"])))

\* The run a click starts, and the run st.experimental_rerun() starts after it.
main(s, click) ==
    Then(script_run(s, click), LAMBDA r :
        IF r.rerun THEN script_run(r, NoClick) ELSE r)

SetSessionState(s, click) ==
    /\ step_1_done' = s.step_1_done
    /\ step_2_done' = s.step_2_done
    /\ step_3_done' = s.step_3_done
    /\ liga_df' = s.liga_df
    /\ uploaded_df' = s.uploaded_df
    /\ player_birthdays_df' = s.player_birthdays_df
    /\ match_details' = s.match_details
    /\ player_data_status' = s.player_data_status
    /\ player_upload_status' = s.player_upload_status
    /\ game_data_status' = s.game_data_status
    /\ game_upload_status' = s.game_upload_status
    /\ player_upload' = s.player_upload
    /\ game_upload' = s.game_upload
    /\ is_logged_in' = s.is_logged_in
    /\ archive_search_done' = s.archive_search_done
    /\ archive_matching_leagues' = s.archive_matching_leagues
    /\ archive_club_name' = s.archive_club_name
    /\ rendered' = s.rendered
    /\ widgets' = s.widgets
    /\ run_error' = s.run_error
    /\ archive_message' = s.archive_message
    /\ last_click' = click
    /\ UNCHANGED <<retryVars, archVars, nameVars, ligaVars>>

\* The script runs that follow an action of the user on the page.
Run(before, click) ==
    \E after \in {main(before, click)} : SetSessionState(after, click)

\* "Liga-Daten abrufen"
FetchLigaClick(liga) ==
    /\ "fetch_liga" \in widgets
    /\ \E before \in {ui} : Run(before, Click("fetch_liga", liga))

\* The user puts a file into an uploader the page shows.
ChooseFile(key, file) ==
    /\ key \in widgets
    /\ \E before \in {IF key = "player_upload" THEN [ui EXCEPT !.player_upload = file]
                        ELSE [ui EXCEPT !.game_upload = file]} :
           Run(before, Click(key, file))

\* "Andere Spielerliste laden"
ResetPlayerClick ==
    /\ "reset_player" \in widgets
    /\ \E before \in {ui} : Run(before, Click("reset_player", ""))

\* "Andere Spieldaten laden"
ResetGameClick ==
    /\ "reset_game" \in widgets
    /\ \E before \in {ui} : Run(before, Click("reset_game", ""))

\* "Spieldetails laden"
FetchDetailsClick(found) ==
    /\ "fetch_details" \in widgets
    /\ \E before \in {ui} : Run(before, Click("fetch_details", found))

\* "Anmelden"
LoginSubmit(outcome) ==
    /\ "login_form" \in widgets
    /\ \E before \in {ui} : Run(before, Click("login_form", outcome))

\* "Abmelden"
LogoutClick ==
    /\ "logout" \in widgets
    /\ \E before \in {ui} : Run(before, Click("logout", ""))

\* "Suche starten"
ArchiveSearchClick(club, leagues) ==
    /\ "archive_start" \in widgets
    /\ \E before \in {ui} :
           Run(before, Click("archive_start", [club |-> club, leagues |-> leagues]))

NextUI ==
    \/ \E liga \in {"empty", "data"} : FetchLigaClick(liga)
    \/ \E key \in {"player_upload", "game_upload"}, file \in Files : ChooseFile(key, file)
    \/ ResetPlayerClick
    \/ ResetGameClick
    \/ \E found \in {"games", "no_games"} : FetchDetailsClick(found)
    \/ \E outcome \in {"success", "failure"} : LoginSubmit(outcome)
    \/ LogoutClick
    \/ \E club \in ClubNames, leagues \in {<<>>, <<"101">>} : ArchiveSearchClick(club, leagues)

Init ==
    /\ rpc = "idle"
    /\ caller = "none"
    /\ max_retries = 0
    /\ attempt = 0
    /\ trace = <<>>
    /\ result = NoResponse
    /\ raised = ""
    /\ fetch_out = "none"
    /\ apc = "idle"
    /\ start_row = 0
    /\ page = 0
    /\ all_leagues = <<>>
    /\ http_log = <<>>
    /\ last_page = NoAnswer
    /\ last_next = None
    /\ ret = <<>>
    /\ team_name = <<>>
    /\ temp_left = FALSE
    /\ league_idx = 0
    /\ upstream = <<>>
    /\ npc = "idle"
    /\ roster = <<>>
    /\ birthday_lookup = <<>>
    /\ player = NoPlayer
    /\ lookups = <<>>
    /\ name_text = <<>>
    /\ birthday_text = <<>>
    /\ has_unknown_birthdays = FALSE
    /\ lpc = "idle"
    /\ liga_doc = NoLigaDoc
    /\ target_table = 0
    /\ liga_data = <<>>
    /\ step_1_done = FALSE
    /\ step_2_done = FALSE
    /\ step_3_done = FALSE
    /\ liga_df = "None"
    /\ uploaded_df = "None"
    /\ player_birthdays_df = "None"
    /\ match_details = "None"
    /\ player_data_status = FALSE
    /\ player_upload_status = FALSE
    /\ game_data_status = FALSE
    /\ game_upload_status = FALSE
    /\ player_upload = "none"
    /\ game_upload = "none"
    /\ is_logged_in = FALSE
    /\ archive_search_done = FALSE
    /\ archive_matching_leagues = <<>>
    /\ archive_club_name = DefaultClubName
    /\ rendered = {1}
    /\ widgets = {"fetch_liga", "login_form"}
    /\ run_error = ""
    /\ archive_message = ""
    /\ last_click = NoClick

\* retry_with_backoff and the fetch_* functions of app.py
SpecRetry == Init /\ [][NextRetry]_vars

\* the archive client
Spec == Init /\ [][NextArchive]_vars

\* find_team_leagues of the archive client
SpecFind == Init /\ [][NextFind]_vars

\* the league parser
SpecLiga == Init /\ [][NextLiga]_vars

\* the pages of the application, one script run for each action of the user
SpecUI == Init /\ [][NextUI]_vars

\* the reconciliation of player names with the roster
SpecNames == Init /\ [][NextNames]_vars

----------------------------------------------------------------------------
\* Reading the wrapper's trace

Calls == SelectSeq(trace, IsCall)
Sleeps == SelectSeq(trace, IsSleep)
RetryEnded == rpc \in {"returned", "raised", "fell_through"}

\* how many of the first i events of the trace are calls of func
CallsUpTo(i) == Len(SelectSeq(SubSeq(trace, 1, i), IsCall))
AllCallsRaised == \A i \in 1..Len(Calls) : Raises(Calls[i])

----------------------------------------------------------------------------
\* Claims about retry_with_backoff

\* C4: retry_with_backoff calls the wrapped request at most max_retries
\* times; it returns the first successful result without a further attempt;
\* when every attempt fails it raises the error of the last attempt; with
\* max_retries = 3 a fourth attempt is never made.
C4_AtMostMaxRetriesCalls ==
    /\ Len(Calls) <= max_retries
    /\ (max_retries = DEFAULT_RETRY_COUNT => Len(Calls) < 4)
    /\ (rpc = "returned" =>
            /\ Returns(trace[Len(trace)])
            /\ result = Response(trace[Len(trace)].status)
            /\ \A i \in 1..(Len(Calls) - 1) : Raises(Calls[i]))
    /\ (rpc = "raised" =>
            /\ Len(Calls) = max_retries
            /\ AllCallsRaised
            /\ IsCall(trace[Len(trace)])
            /\ raised = trace[Len(trace)].error)
    /\ (RetryEnded /\ max_retries > 0 /\ AllCallsRaised => rpc = "raised")

\* C4 witness: three attempts failed, the last with another error than the
\* first, and the wrapper raised.
C4_Witness ==
    /\ rpc = "raised"
    /\ max_retries = DEFAULT_RETRY_COUNT
    /\ Len(Calls) = 3
    /\ Calls[1].error # Calls[3].error

\* the seconds slept, in order
SleepSeconds == [i \in 1..Len(Sleeps) |-> Sleeps[i].t]

ThreeFailuresOfThree ==
    /\ RetryEnded
    /\ max_retries = 3
    /\ Len(Calls) = 3
    /\ AllCallsRaised

\* C5 as stated: with max_retries = 3 and base_delay = 1, three consecutive
\* failures produce three delays of 1s, 2s and 4s before the final error is
\* surfaced.
C5_ThreeDelaysBeforeError ==
    ThreeFailuresOfThree => rpc = "raised" /\ SleepSeconds = <<1, 2, 4>>

\* C5 as amended: with max_retries = 3 and base_delay = 1, three consecutive
\* failures produce two delays, of 1s and 2s, one before the second and one
\* before the third attempt; the third failure is raised at once, with no
\* delay after it.
C5_TwoDelaysBeforeError ==
    ThreeFailuresOfThree =>
        /\ rpc = "raised"
        /\ SleepSeconds = <<1, 2>>
        /\ IsCall(trace[Len(trace)])

\* C5 witness: a run with max_retries = 3 whose three attempts all failed.
C5_Witness == ThreeFailuresOfThree /\ rpc = "raised"

\* C6: the delay slept before attempt n (n >= 2) is RETRY_DELAY * 2^(n-2)
\* seconds, exactly one sleep, and no delay precedes the first attempt.
C6_DelayBeforeAttempt ==
    \A i \in 1..Len(trace) :
        IsCall(trace[i]) =>
            LET n == CallsUpTo(i)
            IN  IF n = 1
                THEN i = 1
                ELSE /\ i > 2
                     /\ IsSleep(trace[i - 1])
                     /\ trace[i - 1].t = RETRY_DELAY * 2 ^ (n - 2)
                     /\ IsCall(trace[i - 2])

\* C6 witness: a fourth attempt was made, after the delays before attempts
\* 2, 3 and 4.
C6_Witness == Len(Calls) = 4 /\ Len(Sleeps) = 3

\* C7: a non-2xx response counts as a failure for the retry wrapper: in
\* fetch_liga_data and fetch_game_details an error reaches the caller only
\* after the maximum number of attempts has been made.
C7_Non2xxIsRetried ==
    (caller \in {"fetch_liga_data", "fetch_game_details"} /\ fetch_out = "error")
        => Len(Calls) = DEFAULT_RETRY_COUNT

----------------------------------------------------------------------------
\* Reading the archive client's request log

IsLeaguesRequest(e) == e.op = "leagues"
LeagueRequests == SelectSeq(http_log, IsLeaguesRequest)

\* the startrow offsets the league-listing walk requested, in order
Requested == [i \in 1..Len(LeagueRequests) |-> LeagueRequests[i].arg]

InLeaguesWalk == apc \in {"leagues", "leagues_done"} /\ Len(Requested) > 0

\* the offsets the links of the page parsed last point to
LinkedOffsets ==
    {last_page.doc.links[i].row_num :
        i \in {j \in 1..Len(last_page.doc.links) : last_page.doc.links[j].startrow}}

\* the operation of the archive client has returned to its caller
ArchiveReturned == apc \in {"leagues_done", "teams_done", "games_done", "schedule_done"}

----------------------------------------------------------------------------
\* Claims about the archive client

\* C1: in every league-listing walk the startrow offsets requested are
\* strictly increasing, and a page whose navigation links point only to
\* offset 0, to the current offset or to smaller offsets ends the walk.
C1_OffsetsStrictlyIncreasing ==
    /\ \A i, j \in 1..Len(Requested) : i < j => Requested[i] < Requested[j]
    /\ (InLeaguesWalk /\ (\A o \in LinkedOffsets : o <= Requested[Len(Requested)])
            => apc = "leagues_done")

\* C1 witness: the walk has fetched at least two pages and ended on a page
\* whose links loop back to offset 0.
C1_Witness ==
    /\ apc = "leagues_done"
    /\ Len(Requested) >= 2
    /\ last_page.doc.has_table
    /\ 0 \in LinkedOffsets

\* C2: for every sequence of upstream responses, also when every page
\* advertises a still larger next offset, the walk makes at most
\* HardPageCap page fetches.
C2_WalkWithinPageCap == Len(Requested) <= HardPageCap

\* C3: when the navigation region of a page references several offsets, the
\* walk advances to the smallest offset strictly greater than the current
\* one, whatever the order of the links.
C3_AdvancesToSmallestGreater ==
    (InLeaguesWalk /\ RequestError(last_page) = "" /\ last_page.doc.has_table) =>
        LET cur == Requested[Len(Requested)]
            greater == {o \in LinkedOffsets : o > cur}
        IN  greater # {} =>
                last_next = Some(CHOOSE o \in greater : \A x \in greater : o <= x)

\* C8: every outbound request of the archive client is retried: a request
\* that failed (the session raised, or the status was not 2xx) was attempted
\* again before the operation gave up.
C8_FailedRequestIsRetried ==
    \A i \in 1..Len(http_log) :
        http_log[i].error # "" =>
            \E j \in (1..Len(http_log)) \ {i} :
                /\ http_log[j].op = http_log[i].op
                /\ http_log[j].arg = http_log[i].arg

\* C9: a transport error while fetching a league-listing page, a roster or
\* the export is surfaced to the caller as an error: an operation that has
\* returned a list to its caller met no failed request.
C9_TransportErrorSurfaced ==
    ArchiveReturned => \A i \in 1..Len(http_log) : http_log[i].error = ""

\* C10: the resolved game list holds at most one entry per game number, for
\* the pages of an HTML schedule walk taken together and for the export.
C10_OneEntryPerGameNumber ==
    apc \in {"games_done", "schedule", "schedule_done"} =>
        \A i, j \in 1..Len(ret) : i # j => ret[i].nummer # ret[j].nummer

----------------------------------------------------------------------------
\* Reading what an operation of the archive client parsed and returned

\* the operation got a 2xx answer whose table it could read
ParsedTable == RequestError(last_page) = "" /\ last_page.doc.has_table
ExportParsed == apc = "games_done" /\ ParsedTable
RosterParsed == apc = "teams_done" /\ ParsedTable

IsScheduleRequest(e) == e.op = "schedule"
ScheduleRequests == SelectSeq(http_log, IsScheduleRequest)

\* ret is what the one call of _get_schedule_page made so far returned
OneSchedulePage ==
    apc \in {"schedule", "schedule_done"} /\ Len(ScheduleRequests) = 1
SchedulePageParsed == OneSchedulePage /\ ParsedTable

PageRows == last_page.doc.rows

\* sub occurs in s at some position
OccursIn(sub, s) ==
    \E i \in 1..(Len(s) + 1) :
        /\ i + Len(sub) - 1 <= Len(s)
        /\ \A k \in 1..Len(sub) : s[i + k - 1] = sub[k]

AllDigits(s) == s # <<>> /\ \A i \in 1..Len(s) : s[i] \in {DigitChars[n] : n \in 1..10}

\* the games are in ascending order of their parsed date-time
Chronological(games) ==
    \A i, j \in 1..Len(games) :
        i < j => games[i].datum.ok /\ games[j].datum.ok
                 /\ games[i].datum.t <= games[j].datum.t

----------------------------------------------------------------------------
\* Claims about the games and teams the archive client returns

\* C11: in get_away_games, when the date of one matching row cannot be
\* parsed, only that row is dropped: every other matching row of the sheet
\* (one the rows loop turned into a game, with a well-formed date) is still
\* among the games returned.
C11_OnlyBadDateRowDropped ==
    ExportParsed =>
        \A i \in 1..Len(PageRows) :
            LET g == export_game(PageRows[i], team_name)
            IN  (g # <<>> /\ PageRows[i].Datum.ok) =>
                    \E k \in 1..Len(ret) : ret[k] = g[1]

\* C12: the list get_away_games returns and the list _get_schedule_page
\* returns are each in ascending order of the parsed date-time.
C12_SortedByDate ==
    (apc = "games_done" \/ OneSchedulePage) => Chronological(ret)

\* C13: every game returned by get_away_games or by the HTML schedule has
\* the filter team name as a case-insensitive substring of its away team; a
\* game in which the filter occurs in the home team only is not returned.
C13_OnlyAwayGames ==
    apc \in {"games_done", "schedule", "schedule_done"} =>
        \A k \in 1..Len(ret) :
            /\ OccursIn(lower(team_name), lower(ret[k].away_team))
            /\ ~(/\ OccursIn(lower(team_name), lower(ret[k].home_team))
                 /\ ~OccursIn(lower(team_name), lower(ret[k].away_team)))

\* C13 witness: the export held a game with the filter team as guest and a
\* game with the filter team as host only, and one game was returned.
C13_Witness ==
    /\ ExportParsed
    /\ team_name = Lions
    /\ Len(ret) = 1
    /\ \E i \in 1..Len(PageRows) :
            /\ PageRows[i].Heimmannschaft.s = Lions
            /\ PageRows[i].Gastmannschaft.s = Bears

\* C14: a struck-through row of the schedule table is never among the games
\* returned, whichever cell of the row holds the strike tag.
C14_NoStruckGame ==
    SchedulePageParsed =>
        \A i \in 1..Len(PageRows) :
            PageRows[i].struck # {} =>
                \A k \in 1..Len(ret) : ret[k].nummer # strip(PageRows[i].nummer)

\* C15: _get_league_teams returns a team only for a row whose name cell is
\* not struck through: no struck row is in the roster, and a roster entry
\* that makes the match of find_team_leagues comes from a row that is not
\* struck.
C15_NoStruckTeam ==
    RosterParsed =>
        /\ \A i \in 1..Len(PageRows) :
              PageRows[i].struck =>
                  \A k \in 1..Len(ret) : ret[k].rank # PageRows[i].rank
        /\ \A k \in 1..Len(ret) :
              \E i \in 1..Len(PageRows) :
                  /\ ~PageRows[i].struck
                  /\ ret[k].rank = PageRows[i].rank
                  /\ ret[k].name = strip(PageRows[i].name)
        /\ (team_found(ret, Lions) =>
              \E i \in 1..Len(PageRows) :
                  /\ ~PageRows[i].struck
                  /\ OccursIn(lower(Lions), lower(PageRows[i].name)))

\* C15 witness: the table held the searched team once struck through and
\* another team, and the roster holds the other team only.
C15_Witness ==
    /\ RosterParsed
    /\ Len(PageRows) = 2
    /\ \E i \in 1..2 : PageRows[i].struck /\ PageRows[i].name = Lions
    /\ Len(ret) = 1
    /\ ~team_found(ret, Lions)

\* a row of the sheet the export path must drop: match-day or match-number
\* missing, or a match-day that ends in '*'
MustDrop(row) ==
    \/ row.Spieltag.na
    \/ row.Spielnummer.na
    \/ (row.Spieltag.s # <<>> /\ row.Spieltag.s[Len(row.Spieltag.s)] = "*")

KeptRows == {i \in 1..Len(PageRows) : ~MustDrop(PageRows[i])}

\* C16: in the export path no game is returned for a row whose match-day or
\* match-number is missing or whose match-day ends in '*'; the numbers of
\* the games returned are integers, and where every other row was kept the
\* match-number "7.0*" is returned as 7.
C16_ExportCoercion ==
    ExportParsed =>
        /\ Len(ret) <= Cardinality(KeptRows)
        /\ \A k \in 1..Len(ret) : AllDigits(ret[k].nummer) /\ AllDigits(ret[k].spieltag)
        /\ (Len(ret) = Cardinality(KeptRows) =>
              \A i \in KeptRows :
                  PageRows[i].Spielnummer.s = <<"7", ".", "0", "*">> =>
                      \E k \in 1..Len(ret) : ret[k].nummer = <<"7">>)

\* C16 witness: the sheet held a row with the match-number "7.0*" and a row
\* whose match-day ends in '*'; the one game returned has the number 7.
C16_Witness ==
    /\ ExportParsed
    /\ Len(PageRows) = 2
    /\ \E i \in 1..2 : PageRows[i].Spielnummer.s = <<"7", ".", "0", "*">>
    /\ \E i \in 1..2 : PageRows[i].Spieltag.s = <<"1", "*">>
    /\ Len(ret) = 1
    /\ ret[1].nummer = <<"7">>

----------------------------------------------------------------------------
\* Reading the reconciliation of a player with the roster

\* generate_pdf has resolved the (unmasked) player against the lookup
Resolved == npc = "filled" /\ Len(lookups) = 1
Resolution == lookups[1]

PlayerLast == normalize(player.Nachname)
PlayerFirst == normalize(player.Vorname)
PlayerTokens == split_ws(PlayerFirst)

\* the row carries a birthdate the lookup can hold
HasBirthdate(row) == row.Geburtsdatum.kind = "Timestamp"
BirthdateOf(row) == strftime(row.Geburtsdatum)
RowTokens(row) == split_ws(normalize(row.Vorname))

\* a roster row with a birthdate and the player's lastname
SameLastname(row) == HasBirthdate(row) /\ normalize(row.Nachname) = PlayerLast

ExactRow(row) == SameLastname(row) /\ normalize(row.Vorname) = PlayerFirst

SameFirstToken(row) ==
    /\ SameLastname(row)
    /\ RowTokens(row) # <<>> /\ PlayerTokens # <<>>
    /\ RowTokens(row)[1] = PlayerTokens[1]

\* the case of the first-token rule: same lastname, same first token, and
\* one of the two firstnames is that token only
FirstTokenRow(row) ==
    SameFirstToken(row) /\ (Len(RowTokens(row)) = 1 \/ Len(PlayerTokens) = 1)

\* every token of the player's firstname is a token of the row's firstname
TokensOfRow(row) ==
    /\ SameLastname(row)
    /\ PlayerTokens # <<>>
    /\ \A n \in 1..Len(PlayerTokens) :
           \E m \in 1..Len(RowTokens(row)) : RowTokens(row)[m] = PlayerTokens[n]

\* every token of the player's firstname occurs in the row's firstname
TokensInRow(row) ==
    /\ SameLastname(row)
    /\ \A n \in 1..Len(PlayerTokens) : OccursIn(PlayerTokens[n], normalize(row.Vorname))

RosterIdx == 1..Len(roster)

\* no roster row gives the player an exact or a first-token entry
NoExactNoFirstToken ==
    \A i \in RosterIdx :
        SameLastname(roster[i]) =>
            /\ normalize(roster[i].Vorname) # PlayerFirst
            /\ RowTokens(roster[i]) # <<>> => RowTokens(roster[i])[1] # PlayerFirst
            /\ PlayerTokens # <<>> =>
                  /\ normalize(roster[i].Vorname) # PlayerTokens[1]
                  /\ RowTokens(roster[i]) # <<>> => RowTokens(roster[i])[1] # PlayerTokens[1]

----------------------------------------------------------------------------
\* Claims about the reconciliation of player names

\* C17: when the roster holds a row whose normalized lastname and full
\* firstname equal the player's (and no second such row), resolution returns
\* that row's birthdate, whatever other rows the roster holds and in
\* whatever order.
C17_ExactMatchWins ==
    Resolved =>
        \A i \in RosterIdx :
            (/\ ExactRow(roster[i])
             /\ \A j \in RosterIdx : ExactRow(roster[j]) => roster[j] = roster[i])
                => Resolution = Found(BirthdateOf(roster[i]))

\* C18: a player whose lastname carries '*' is marked as masked; for such a
\* player generate_pdf writes the fixed placeholder as the name and no
\* birthdate, and never calls _lookup_birthday, also when the roster holds
\* a row of exactly that name.
C18_RedactedNeverResolved ==
    npc \in {"parsed", "filled"} =>
        LET starred == \E n \in 1..Len(player.Nachname) : player.Nachname[n] = "*"
        IN  /\ player.is_masked = starred
            /\ (npc = "filled" /\ starred) =>
                  /\ name_text = MaskedNameText
                  /\ birthday_text = <<>>
                  /\ lookups = <<>>
                  /\ ~has_unknown_birthdays

\* C18 witness: the player "M*i, Anna" was filled in as the placeholder
\* while the roster holds a row "M*i, Anna" with a birthdate.
C18_Witness ==
    /\ npc = "filled"
    /\ player.Nachname = <<"M", "*", "i">>
    /\ name_text = MaskedNameText
    /\ \E i \in RosterIdx : ExactRow(roster[i])

C20_CompositeFirstTokenRow ==
    (Resolved /\ NoExactNoFirstToken) =>
        LET such == {i \in RosterIdx : TokensOfRow(roster[i])}
        IN  such # {} =>
                Resolution = Found(BirthdateOf(
                    roster[CHOOSE i \in such : \A j \in such : i <= j]))

\* C20 as amended: in that case the player resolves with found = true to
\* the birthdate of a roster row with the same lastname whose firstname
\* contains every token of the player's firstname as a substring (not
\* necessarily as a token); it is the row of the claim when the roster holds
\* no other row that contains them.
C20_CompositeFound ==
    (Resolved /\ NoExactNoFirstToken) =>
        \A i \in RosterIdx :
            TokensOfRow(roster[i]) =>
                /\ Resolution.found
                /\ \E j \in RosterIdx :
                       /\ TokensInRow(roster[j])
                       /\ Resolution.birthday = BirthdateOf(roster[j])
                /\ (\A j \in RosterIdx : TokensInRow(roster[j]) => roster[j] = roster[i])
                       => Resolution.birthday = BirthdateOf(roster[i])

\* C20 witness: the roster is the one row "Mai, Anna Maria" and the player
\* "Mai, Maria Anna" got its birthdate.
C20_Witness ==
    /\ Resolved
    /\ roster = <<RosterRow(Mai, Anna \o <<" ">> \o Maria, Timestamp(2))>>
    /\ player.Vorname = Maria \o <<" ">> \o Anna
    /\ Resolution = Found(strftime(Timestamp(2)))

----------------------------------------------------------------------------
\* Further claims about single operations

\* C26: the list of leagues _get_all_leagues returns for a season holds no
\* two leagues with the same liga_id, also when consecutive pages repeat a
\* league row.
C26_LeagueIdsUnique ==
    apc = "leagues_done" =>
        \A i, j \in 1..Len(ret) : i # j => ret[i].liga_id # ret[j].liga_id

\* C27 as stated: when the composite step (neither an exact nor a
\* first-token entry applies) finds a birthdate, it is the birthdate of a
\* roster row of the player's lastname whose firstname has every token of
\* the player's firstname as a whole token.
C27_CompositeMatchesWholeTokens ==
    (Resolved /\ NoExactNoFirstToken /\ Resolution.found) =>
        \E j \in RosterIdx :
            /\ TokensOfRow(roster[j])
            /\ Resolution.birthday = BirthdateOf(roster[j])

\* C27 as amended: when the composite step finds a birthdate, it is the
\* birthdate of a roster row of the player's lastname whose firstname
\* contains every token of the player's firstname as a substring; a token
\* that is only a fragment of a roster token does resolve to that row.
C27_CompositeMatchesSubstrings ==
    (Resolved /\ NoExactNoFirstToken /\ Resolution.found) =>
        \E j \in RosterIdx :
            /\ TokensInRow(roster[j])
            /\ Resolution.birthday = BirthdateOf(roster[j])

\* C27 witness: the roster is the one row "Mai, Annamaria" and the player
\* "Mai, Anna", whose firstname is a fragment of the row's, got its
\* birthdate.
C27_Witness ==
    /\ Resolved
    /\ roster = <<RosterRow(Mai, Anna \o <<"m", "a", "r", "i", "a">>, Timestamp(3))>>
    /\ player.Vorname = Anna
    /\ Resolution = Found(strftime(Timestamp(3)))

\* C30: get_away_games has removed its temporary file on every path on
\* which it returns, also when the content cannot be read as a spreadsheet.
C30_TempFileRemoved == apc = "games_done" => ~temp_left

----------------------------------------------------------------------------
\* Reading a search of find_team_leagues

FindReturned == apc = "find_done"

IsTeamsRequest(e) == e.op = "teams"
TeamsRequests == SelectSeq(http_log, IsTeamsRequest)

\* the roster page the upstream gave for the i-th league of the scan
RosterPage(i) == upstream[i].teams
RosterLoaded(i) == RequestError(RosterPage(i)) = "" /\ RosterPage(i).doc.has_table

\* the rows of that page that show an active team: a rank and a name cell,
\* the name not struck through
ActiveRows(i) ==
    IF RosterLoaded(i)
    THEN SelectSeq(RosterPage(i).doc.rows,
                   LAMBDA row : row.cells >= 2 /\ ~row.struck)
    ELSE <<>>

NameMatches(name) == OccursIn(lower(team_name), lower(name))

\* the i-th league of the scan has an active team whose name contains the query
ActiveMatch(i) ==
    \E n \in 1..Len(ActiveRows(i)) : NameMatches(ActiveRows(i)[n].name)

\* the positions of the scan list whose league has such a team, ascending
MatchingPositions ==
    SelectSeq([i \in 1..Len(upstream) |-> i], LAMBDA i : ActiveMatch(i))

----------------------------------------------------------------------------
\* Claims about find_team_leagues

C22_AllMatchingTeamsFound ==
    FindReturned /\ team_name # <<>> =>
        \A k \in 1..Len(ret) :
            LET i == MatchingPositions[k]
            IN  /\ Len(ret[k].teams) = Len(ActiveRows(i))
                /\ \A n \in 1..Len(ret[k].teams) :
                       ret[k].teams[n].name = strip(ActiveRows(i)[n].name)
                /\ {ret[k].found_team} =
                       {ret[k].teams[n] : n \in {m \in 1..Len(ret[k].teams) :
                                                   NameMatches(ret[k].teams[m].name)}}
                /\ \A g \in 1..Len(ret[k].away_games) :
                       NameMatches(ret[k].away_games[g].away_team)

\* C23: when the roster page or the export of one league fails to load or
\* is malformed, that league yields an empty result and every remaining
\* league is still processed: the search never ends by an exception, a
\* league whose roster did not load is not returned, and a league whose
\* export did not load is returned with no away games.
C23_LeagueIsolation ==
    /\ apc # "find_raised"
    /\ apc = "find_loop" => league_idx = Len(upstream) + 1 /\ league_idx <= Len(all_leagues)
    /\ FindReturned =>
          /\ Len(upstream) = Len(all_leagues)
          /\ \A i \in 1..Len(upstream) : ~RosterLoaded(i) => ~ActiveMatch(i)
          /\ \A k \in 1..Len(ret) :
                 LET export == upstream[MatchingPositions[k]].export
                 IN  (RequestError(export) # "" \/ ~export.doc.has_table)
                         => ret[k].away_games = <<>>

\* C23 witness: the roster of the first league failed to load, the roster
\* of the second league has the team, its export could not be read, and the
\* search returned the second league.
C23_Witness ==
    /\ FindReturned
    /\ Len(upstream) = 2
    /\ RequestError(upstream[1].teams) # ""
    /\ ActiveMatch(2)
    /\ ~upstream[2].export.doc.has_table
    /\ Len(ret) = 1
    /\ ret[1].liga_id = all_leagues[2].liga_id

\* C24: an empty team name is an invalid input: find_team_leagues and
\* get_away_games abort for it and never return leagues or games.
C24_EmptyFilterAborts ==
    team_name = <<>> => ~(apc \in {"find_done", "games_done"} /\ ret # <<>>)

\* The tables of the parsed document whose header cells, stripped, include
\* Klasse, Alter and Liganame
LigaCandidates ==
    {i \in 1..Len(liga_doc.tables) :
        \A token \in {Klasse, Alter, Liganame} :
            \E c \in 1..Len(liga_doc.tables[i].headers) :
                strip(liga_doc.tables[i].headers[c]) = token}

\* C25: when a sportView table of the document has header cells that
\* include Klasse, Alter and Liganame (any order, extra cells allowed) the
\* league parser selects such a table and returns its rows; when the
\* document has no such table the parser returns an empty result.
C25_LigaTableSelected ==
    lpc # "idle" =>
        IF LigaCandidates # {}
        THEN /\ target_table \in LigaCandidates
             /\ liga_data = liga_rows(liga_doc.tables[target_table].rows)
        ELSE target_table = 0 /\ liga_data = <<>>

\* C28: in the wizard, whenever step_2_done is set the player list and the
\* game data are both loaded, and steps 3 and 4 are never rendered without
\* them.
C28_Step2DoneMeansDataLoaded ==
    (step_2_done \/ 3 \in rendered \/ 4 \in rendered) =>
        player_birthdays_df # "None" /\ uploaded_df # "None"

\* C29: when a logged-in user started the archive search with a non-empty
\* club name, the search completes without error: archive_search_done is
\* set and archive_matching_leagues holds the leagues find_team_leagues
\* returns.
C29_ArchiveSearchCompletes ==
    (last_click.widget = "archive_start" /\ last_click.value.club # "" /\ run_error = "") =>
        /\ archive_message # "error"
        /\ archive_search_done
        /\ archive_matching_leagues = last_click.value.leagues

====
